---- MODULE Spec2Model ----
(***************************************************************************)
(* Model of src/src/protocol/protocol_client.py: the error classifier      *)
(* translate_error and the ProtocolClient session (authentication          *)
(* handshake, log-off callback, collections rendezvous, friend             *)
(* relationship reconciliation).                                           *)
(*                                                                         *)
(* Three specifications share the variables:                               *)
(*   ClassifySpec  translate_error applied to every member of EResult;     *)
(*   Spec          the session: authenticate / retrieve_collections tasks, *)
(*                 the callbacks of the transport, close;                  *)
(*   FriendsSpec   _relationship_handler applied to relationship events.   *)
(***************************************************************************)
EXTENDS Integers, Sequences, FiniteSets, TLC

VARIABLES
    cls_code,           \* translate_error: the argument `result`
    cls_result,         \* translate_error: what the call produced
    friends_cache,      \* self._friends_cache, its member set
    rel_event,          \* the (incremental, friends) the handler was last called with
    rel_raised,         \* the exception the last _relationship_handler call ended with
    sent,               \* requests the last handler call issued on _protobuf_client, in order
    rel_trace,          \* what the last _relationship_handler call did to the cache and
                        \* asked of _protobuf_client, in order
    pc,                 \* where each task of the application stands in its call
    call,               \* the public operation each task called
    login_future,       \* self._login_future: 0 for None, else the future's identity
    future,             \* each future ever created: "none", "pending" or its result
    awaited,            \* the future each authenticate task is awaiting (line 117)
    auth_lost_handler,  \* self._auth_lost_handler: 0 for None, else the handler
    raised,             \* the error each task's call raised
    returned,           \* the collections each retrieve_collections call returned
    logons,             \* log_on requests the transport has not answered yet
    closed,             \* close() was called
    translate_arg,      \* the argument of the last translate_error call of the session
    handler_error,      \* the exception the last callback of the transport ended with
    lost_calls,         \* the invocations of the lost-handler the last log-off callback made
    job_list,           \* self._protobuf_client.job_list
    collections,        \* self._protobuf_client.collections
    import_call,        \* the last import_game_stats / import_game_times call and its argument
    translations_cache, \* self._translations_cache: app id -> bundle, Absent for no key
    tr_event,           \* the (appid, translations) _translations_handler was last called with
    tr_sent,            \* the requests the last _translations_handler call issued
    lic_event,          \* the licenses _license_import_handler was last called with
    lic_trace,          \* what the last _license_import_handler call did, in order
    last_handler        \* the import handler that ran last

clsVars == <<cls_code, cls_result>>

relVars == <<friends_cache, rel_event, rel_raised, sent, rel_trace>>

sesVars == <<pc, call, login_future, future, awaited, auth_lost_handler, raised, returned,
             logons, closed, translate_arg, handler_error, lost_calls, job_list,
             collections>>

jobVars == <<import_call>>

impVars == <<translations_cache, tr_event, tr_sent, lic_event, lic_trace, last_handler>>

vars == <<clsVars, relVars, sesVars, jobVars, impVars>>

None == "None"          \* Python's None

(***************************************************************************)
(* EResult (protocol/consts.py).  The members translate_error names, by    *)
(* the branch that names them, and members it does not name.               *)
(***************************************************************************)
InvalidCredentialsCodes ==
    {"AccountNotFound", "InvalidSteamID", "InvalidLoginAuthCode",
     "AccountLogonDeniedNoMailSent", "AccountLoginDeniedNeedTwoFactor"}

NetworkErrorCodes == {"ConnectFailed", "IOFailure", "RemoteDisconnect"}

BackendNotAvailableCodes ==
    {"Busy", "ServiceUnavailable", "Pending", "IPNotFound", "TryAnotherCM", "Cancelled"}

TemporaryBlockedCodes ==
    {"RateLimitExceeded", "LimitExceeded", "Suspended", "AccountLocked",
     "AccountLogonDeniedVerifiedEmailRequired"}

AccessDeniedCodes ==
    {"AccessDenied", "InsufficientPrivilege", "LogonSessionReplaced", "Blocked",
     "Ignored", "AccountDisabled", "AccountNotFeatured", "AccountLogonDenied"}

BackendErrorCodes ==
    {"DataCorruption", "DiskFull", "RemoteCallFailed", "RemoteFileConflict", "BadResponse"}

NamedCodes ==
    InvalidCredentialsCodes \cup NetworkErrorCodes \cup BackendNotAvailableCodes
        \cup {"Timeout"} \cup TemporaryBlockedCodes \cup {"Banned"}
        \cup AccessDeniedCodes \cup BackendErrorCodes

UnnamedCodes ==
    {"Fail", "NoConnection", "InvalidPassword", "LoggedInElsewhere",
     "InvalidProtocolVer", "InvalidParam", "FileNotFound", "InvalidState",
     "InvalidName", "InvalidEmail", "DuplicateName", "NotLoggedOn",
     "EncryptionFailure", "Revoked", "Expired", "AlreadyRedeemed",
     "DuplicateRequest", "AlreadyOwned", "PersistFailed", "LockingFailed",
     "HandshakeFailed", "ServiceReadOnly", "PasswordRequiredToKickSession",
     "AlreadyLoggedInElsewhere"}

OK == "OK"

EResult == {OK} \cup NamedCodes \cup UnnamedCodes

(***************************************************************************)
(* translate_error.  An error value is [category, data]; data is the dict  *)
(* {"result": result}, modelled by the code it holds, or None.  The        *)
(* BackendError branch returns the class galaxy.api.errors.BackendError    *)
(* itself, not an instance built from data: raised or passed on, it holds  *)
(* no data.  For result = OK the assert fails.                             *)
(***************************************************************************)
AssertionError == [category |-> "AssertionError", data |-> None]

ErrorValue(category, data) == [category |-> category, data |-> data]

TimeoutAsNotAvailable(result) ==
    IF result = OK THEN AssertionError
    ELSE IF result \in InvalidCredentialsCodes THEN ErrorValue("InvalidCredentials", result)
    ELSE IF result \in NetworkErrorCodes THEN ErrorValue("NetworkError", result)
    ELSE IF result \in BackendNotAvailableCodes \cup {"Timeout"}
        THEN ErrorValue("BackendNotAvailable", result)
    ELSE IF result \in TemporaryBlockedCodes THEN ErrorValue("TemporaryBlocked", result)
    ELSE IF result = "Banned" THEN ErrorValue("Banned", result)
    ELSE IF result \in AccessDeniedCodes THEN ErrorValue("AccessDenied", result)
    ELSE IF result \in BackendErrorCodes THEN ErrorValue("BackendError", None)
    ELSE ErrorValue("UnknownError", result)

translate_error(result) ==
    IF result = OK THEN AssertionError
    ELSE IF result \in InvalidCredentialsCodes THEN ErrorValue("InvalidCredentials", result)
    ELSE IF result \in NetworkErrorCodes THEN ErrorValue("NetworkError", result)
    ELSE IF result \in BackendNotAvailableCodes THEN ErrorValue("BackendNotAvailable", result)
    ELSE IF result = "Timeout" THEN ErrorValue("BackendTimeout", result)
    ELSE IF result \in TemporaryBlockedCodes THEN ErrorValue("TemporaryBlocked", result)
    ELSE IF result = "Banned" THEN ErrorValue("Banned", result)
    ELSE IF result \in AccessDeniedCodes THEN ErrorValue("AccessDenied", result)
    ELSE IF result \in BackendErrorCodes THEN ErrorValue("BackendError", None)
    ELSE ErrorValue("UnknownError", result)

(***************************************************************************)
(* _relationship_handler.  `friends` is a dict user_id -> relationship;    *)
(* here a function on Users whose value Absent marks a user_id that is no  *)
(* key.  friends.items() is walked in ascending user_id: the handler       *)
(* treats identifiers alike, so any insertion order is this one up to a    *)
(* renaming of the identifiers.                                            *)
(***************************************************************************)
MaxUsers == 3

Users == 1..MaxUsers

Absent == "Absent"

Friend == "Friend"

None_ == "None_"

EFriendRelationship == {None_, Friend, "RequestRecipient"}

Batches == [Users -> EFriendRelationship \cup {Absent}]

_STATUS_FLAG == 1106

\* FriendsCache (friends_cache.py), by its member set
CacheAdd(cache, user_id) == cache \cup {user_id}

CacheRemove(cache, user_id) == cache \ {user_id}

CacheReset(ids) == {ids[k] : k \in 1..Len(ids)}

\* the requests of ProtobufClient the handler awaits
Request(op, state, ids, flag) == [op |-> op, state |-> state, ids |-> ids, flag |-> flag]

set_persona_state(state) == Request("set_persona_state", state, <<>>, 0)

get_friends_statuses == Request("get_friends_statuses", None, <<>>, 0)

get_user_infos(ids, flag) == Request("get_user_infos", None, ids, flag)

\* the calls on self._friends_cache, in the shape of the requests
CacheOp(op, ids) == Request(op, None, ids, 0)

\* line 160
NoAssert(incremental) == TRUE

AssertIncremental(incremental) == incremental

\* lines 150-161: the loop from user_id i on; acc is the loop's state
RECURSIVE RelationshipLoop(_, _, _, _)
RelationshipLoop(incremental, friends, i, acc) ==
    IF i > MaxUsers \/ acc.raised # None THEN acc
    ELSE IF friends[i] = Friend THEN
        IF incremental
        THEN RelationshipLoop(incremental, friends, i + 1,
                [acc EXCEPT !.cache = CacheAdd(@, i),
                            !.new_friends = Append(@, i),
                            !.ops = Append(@, CacheOp("add", <<i>>))])
        ELSE RelationshipLoop(incremental, friends, i + 1,
                [acc EXCEPT !.initial_friends = Append(@, i)])
    ELSE IF friends[i] = None_ THEN
        IF AssertIncremental(incremental)
        THEN RelationshipLoop(incremental, friends, i + 1,
                [acc EXCEPT !.cache = CacheRemove(@, i),
                            !.ops = Append(@, CacheOp("remove", <<i>>))])
        ELSE [acc EXCEPT !.raised = "AssertionError"]
    ELSE RelationshipLoop(incremental, friends, i + 1, acc)

LoopStart(cache) ==
    [cache |-> cache, initial_friends |-> <<>>, new_friends |-> <<>>, raised |-> None,
     ops |-> <<>>]

\* lines 163-164
ResetAlways(incremental, cache, initial_friends) == CacheReset(initial_friends)

MergeInsteadOfReset(incremental, cache, initial_friends) ==
    IF incremental THEN cache ELSE cache \cup CacheReset(initial_friends)

CacheAfterLoop(incremental, cache, initial_friends) ==
    IF incremental THEN cache ELSE CacheReset(initial_friends)

SeqOfSet(S) ==
    LET RECURSIVE Ascending(_, _)
        Ascending(i, acc) ==
            IF i > MaxUsers THEN acc
            ELSE Ascending(i + 1, IF i \in S THEN Append(acc, i) ELSE acc)
    IN Ascending(1, <<>>)

\* lines 163-172
RequestsForWholeCache(incremental, initial_friends, new_friends, cache) ==
    (IF incremental THEN <<>>
     ELSE <<set_persona_state("Invisible"), get_friends_statuses,
            get_user_infos(initial_friends, _STATUS_FLAG)>>)
    \o (IF new_friends # <<>>
        THEN <<get_friends_statuses, get_user_infos(SeqOfSet(cache), _STATUS_FLAG)>>
        ELSE <<>>)

StatusesBeforePersona(incremental, initial_friends, new_friends, cache) ==
    (IF incremental THEN <<>>
     ELSE <<get_friends_statuses, set_persona_state("Invisible"),
            get_user_infos(initial_friends, _STATUS_FLAG)>>)
    \o (IF new_friends # <<>>
        THEN <<get_friends_statuses, get_user_infos(new_friends, _STATUS_FLAG)>>
        ELSE <<>>)

RelationshipRequests(incremental, initial_friends, new_friends, cache) ==
    (IF incremental THEN <<>>
     ELSE <<set_persona_state("Invisible"), get_friends_statuses,
            get_user_infos(initial_friends, _STATUS_FLAG)>>)
    \o (IF new_friends # <<>>
        THEN <<get_friends_statuses, get_user_infos(new_friends, _STATUS_FLAG)>>
        ELSE <<>>)

relInit ==
    /\ friends_cache = {}
    /\ rel_event = [handled |-> FALSE, incremental |-> FALSE,
                    friends |-> [u \in Users |-> Absent]]
    /\ rel_raised = None
    /\ sent = <<>>
    /\ rel_trace = <<>>

\* lines 148-172
RelationshipHandler(incremental, friends) ==
    LET loop == RelationshipLoop(incremental, friends, 1, LoopStart(friends_cache)) IN
    /\ rel_event' = [handled |-> TRUE, incremental |-> incremental, friends |-> friends]
    /\ rel_raised' = loop.raised
    /\ IF loop.raised # None
       THEN /\ friends_cache' = loop.cache
            /\ sent' = <<>>
            /\ rel_trace' = loop.ops
       ELSE /\ friends_cache' =
                   CacheAfterLoop(incremental, loop.cache, loop.initial_friends)
            /\ sent' = RelationshipRequests(incremental, loop.initial_friends,
                                            loop.new_friends, friends_cache')
            /\ rel_trace' = loop.ops
                   \o (IF incremental THEN <<>>
                       ELSE <<CacheOp("reset", loop.initial_friends)>>)
                   \o sent'

FriendsNext ==
    \E incremental \in BOOLEAN, friends \in Batches :
        RelationshipHandler(incremental, friends) /\ UNCHANGED <<clsVars, sesVars, jobVars, impVars>>


NotCalled == [category |-> "NotCalled", data |-> None]

ClassifyInit ==
    /\ cls_code \in EResult
    /\ cls_result = NotCalled

Classify ==
    /\ cls_result = NotCalled
    /\ cls_result' = translate_error(cls_code)
    /\ UNCHANGED cls_code

\* the classifier at rest, for the specifications that do not exercise it
clsIdle ==
    /\ cls_code = OK
    /\ cls_result = NotCalled

(***************************************************************************)
(* The session.  Each task of the application makes one call, authenticate *)
(* or retrieve_collections; a task that has returned or raised stays so,   *)
(* and a later call is another task.  The auth_lost_handler a task passes  *)
(* to authenticate is identified by the task, and so is the future its     *)
(* call creates.                                                           *)
(***************************************************************************)
MaxTasks == 2

Tasks == 1..MaxTasks

\* the result codes the transport's callbacks carry in the session
SessionCodes == {OK, "InvalidSteamID", "Timeout", "Banned", "BadResponse", "Fail"}

Payloads == {{<<"x", 1>>}, {<<"y", 2>>}}

NoError == [category |-> "None", data |-> None]

\* ProtobufClient (protobuf_client.py): callbacks are delivered, and calls made,
\* while the transport is open
TransportOpen == ~closed

sesInit ==
    /\ pc = [t \in Tasks |-> "idle"]
    /\ call = [t \in Tasks |-> None]
    /\ login_future = 0
    /\ future = [t \in Tasks |-> "none"]
    /\ awaited = [t \in Tasks |-> 0]
    /\ auth_lost_handler = 0
    /\ raised = [t \in Tasks |-> NoError]
    /\ returned = [t \in Tasks |-> {}]
    /\ logons = 0
    /\ closed = FALSE
    /\ translate_arg = None
    /\ handler_error = None
    /\ lost_calls = <<>>
    /\ job_list = <<>>
    /\ collections = [event |-> FALSE, collections |-> {}]

\* lines 118-119
HandlerAlwaysInstalled(result, current, handler) == handler

HandlerNeverInstalled(result, current, handler) == current

InstalledHandler(result, current, handler) ==
    IF result = OK THEN handler ELSE current

\* lines 120-121
RaisesRawCode(result) ==
    IF result = OK THEN NoError ELSE ErrorValue(result, None)

AuthenticateRaises(result) ==
    IF result = OK THEN NoError ELSE translate_error(result)

\* lines 117-121, from the moment the awaited future f has a result
AuthenticateFinish(t, f) ==
    LET result == future[f] IN
    /\ awaited' = [awaited EXCEPT ![t] = f]
    /\ auth_lost_handler' = InstalledHandler(result, auth_lost_handler, t)
    /\ raised' = [raised EXCEPT ![t] = AuthenticateRaises(result)]
    /\ translate_arg' = IF result = OK THEN translate_arg ELSE result
    /\ pc' = [pc EXCEPT ![t] = IF result = OK THEN "returned" ELSE "raised"]

FutureDone(f) == f # 0 /\ future[f] \notin {"none", "pending"}

\* lines 113-116: the future is created and log_on is called
AuthenticateStart(t) ==
    /\ pc[t] = "idle"
    /\ TransportOpen
    /\ login_future' = t
    /\ future' = [future EXCEPT ![t] = "pending"]
    /\ logons' = logons + 1
    /\ call' = [call EXCEPT ![t] = "authenticate"]
    /\ pc' = [pc EXCEPT ![t] = "log_on"]
    /\ UNCHANGED <<awaited, auth_lost_handler, raised, returned, closed, translate_arg,
                   handler_error, lost_calls, job_list, collections>>

\* line 117: log_on has returned; the task awaits what self._login_future holds
\* now, and goes on at once when that future already has its result
AuthenticateAwait(t) ==
    /\ pc[t] = "log_on"
    /\ IF FutureDone(login_future)
       THEN AuthenticateFinish(t, login_future)
       ELSE /\ awaited' = [awaited EXCEPT ![t] = login_future]
            /\ pc' = [pc EXCEPT ![t] = "await_login"]
            /\ UNCHANGED <<auth_lost_handler, raised, translate_arg>>
    /\ UNCHANGED <<call, login_future, future, returned, logons, closed, handler_error,
                   lost_calls, job_list, collections>>

\* lines 117-121: the awaited future has its result and the task is resumed
AuthenticateResume(t) ==
    /\ pc[t] = "await_login"
    /\ FutureDone(awaited[t])
    /\ AuthenticateFinish(t, awaited[t])
    /\ UNCHANGED <<call, login_future, future, returned, logons, closed, handler_error,
                   lost_calls, job_list, collections>>

\* lines 139-141; set_result on a future that has its result raises InvalidStateError
LogOnHandler(result) ==
    /\ TransportOpen
    /\ logons > 0
    /\ logons' = logons - 1
    /\ IF login_future = 0
       THEN /\ handler_error' = "AssertionError"
            /\ UNCHANGED future
       ELSE IF future[login_future] = "pending"
       THEN /\ future' = [future EXCEPT ![login_future] = result]
            /\ handler_error' = None
       ELSE /\ handler_error' = "InvalidStateError"
            /\ UNCHANGED future
    /\ UNCHANGED <<pc, call, login_future, awaited, auth_lost_handler, raised, returned,
                   closed, translate_arg, lost_calls, job_list, collections>>

\* lines 143-146
LogOffHandler(result) ==
    /\ TransportOpen
    /\ IF auth_lost_handler # 0
       THEN /\ translate_arg' = result
            /\ IF translate_error(result) = AssertionError
               THEN /\ handler_error' = "AssertionError"
                    /\ lost_calls' = <<>>
               ELSE /\ handler_error' = None
                    /\ lost_calls' =
                           <<[handler |-> auth_lost_handler, error |-> translate_error(result)]>>
       ELSE /\ handler_error' = None
            /\ lost_calls' = <<>>
            /\ UNCHANGED translate_arg
    /\ UNCHANGED <<pc, call, login_future, future, awaited, auth_lost_handler, raised,
                   returned, logons, closed, job_list, collections>>

\* lines 104-105
Close ==
    /\ TransportOpen
    /\ closed' = TRUE
    /\ UNCHANGED <<pc, call, login_future, future, awaited, auth_lost_handler, raised,
                   returned, logons, translate_arg, handler_error, lost_calls, job_list,
                   collections>>

\* lines 134-137
FinishWithoutClear(t) ==
    /\ returned' = [returned EXCEPT ![t] = collections.collections]
    /\ collections' = collections
    /\ pc' = [pc EXCEPT ![t] = "returned"]

RetrieveCollectionsFinish(t) ==
    /\ returned' = [returned EXCEPT ![t] = collections.collections]
    /\ collections' = [event |-> FALSE, collections |-> {}]
    /\ pc' = [pc EXCEPT ![t] = "returned"]

Job(job_name) == [job_name |-> job_name]

\* lines 131-133: Event.wait() returns at once when the event is set
RetrieveCollectionsStart(t) ==
    /\ pc[t] = "idle"
    /\ TransportOpen
    /\ call' = [call EXCEPT ![t] = "retrieve_collections"]
    /\ job_list' = Append(job_list, Job("import_collections"))
    /\ IF collections.event
       THEN RetrieveCollectionsFinish(t)
       ELSE /\ pc' = [pc EXCEPT ![t] = "await_event"]
            /\ UNCHANGED <<returned, collections>>
    /\ UNCHANGED <<login_future, future, awaited, auth_lost_handler, raised, logons,
                   closed, translate_arg, handler_error, lost_calls>>

\* lines 133-137: a waiter the event's set() has woken is resumed
RetrieveCollectionsResume(t) ==
    /\ pc[t] = "woken"
    /\ RetrieveCollectionsFinish(t)
    /\ UNCHANGED <<call, login_future, future, awaited, auth_lost_handler, raised, logons,
                   closed, translate_arg, handler_error, lost_calls, job_list>>

\* ProtobufClient: the collections arrive; collections['event'].set() wakes every waiter
SignalCollections(payload) ==
    /\ TransportOpen
    /\ collections' = [event |-> TRUE, collections |-> payload]
    /\ pc' = [t \in Tasks |-> IF pc[t] = "await_event" THEN "woken" ELSE pc[t]]
    /\ UNCHANGED <<call, login_future, future, awaited, auth_lost_handler, raised, returned,
                   logons, closed, translate_arg, handler_error, lost_calls, job_list>>

(***************************************************************************)
(* The job queue: import_game_stats and import_game_times, which return    *)
(* without awaiting anything, beside retrieve_collections.                 *)
(***************************************************************************)
MaxJobs == 2

GameIds == {10, 20}

GameIdLists ==
    {<<>>} \cup {<<g>> : g \in GameIds} \cup {<<g, h>> : g \in GameIds, h \in GameIds}

StatsJob(game_id) == [job_name |-> "import_game_stats", game_id |-> game_id]

ImportCall(name, game_ids) == [name |-> name, game_ids |-> game_ids]

jobInit == import_call = ImportCall(None, <<>>)

\* lines 123-126
ImportGameStatsLastOnly(game_ids) ==
    /\ job_list' = IF game_ids = <<>> THEN job_list
                   ELSE Append(job_list, StatsJob(game_ids[Len(game_ids)]))
    /\ import_call' = ImportCall("import_game_stats", game_ids)
    /\ UNCHANGED <<pc, call, login_future, future, awaited, auth_lost_handler, raised,
                   returned, logons, closed, translate_arg, handler_error, lost_calls,
                   collections>>

ImportGameStats(game_ids) ==
    /\ job_list' = job_list \o [k \in 1..Len(game_ids) |-> StatsJob(game_ids[k])]
    /\ import_call' = ImportCall("import_game_stats", game_ids)
    /\ UNCHANGED <<pc, call, login_future, future, awaited, auth_lost_handler, raised,
                   returned, logons, closed, translate_arg, handler_error, lost_calls,
                   collections>>

\* lines 128-129
ImportGameTimes ==
    /\ job_list' = Append(job_list, Job("import_game_times"))
    /\ import_call' = ImportCall("import_game_times", <<>>)
    /\ UNCHANGED <<pc, call, login_future, future, awaited, auth_lost_handler, raised,
                   returned, logons, closed, translate_arg, handler_error, lost_calls,
                   collections>>

JobsNext ==
    \/ \E game_ids \in GameIdLists :
          /\ Len(job_list) + Len(game_ids) <= MaxJobs
          /\ ImportGameStats(game_ids)
          /\ UNCHANGED <<clsVars, relVars, impVars>>
    \/ /\ Len(job_list) < MaxJobs
       /\ ImportGameTimes
       /\ UNCHANGED <<clsVars, relVars, impVars>>
    \/ \E t \in Tasks :
          /\ Len(job_list) < MaxJobs
          /\ RetrieveCollectionsStart(t)
          /\ UNCHANGED <<clsVars, relVars, jobVars, impVars>>
    \/ \E t \in Tasks :
          RetrieveCollectionsResume(t) /\ UNCHANGED <<clsVars, relVars, jobVars, impVars>>
    \/ \E payload \in Payloads :
          SignalCollections(payload) /\ UNCHANGED <<clsVars, relVars, jobVars, impVars>>

(***************************************************************************)
(* The import handlers: _translations_handler and _license_import_handler. *)
(* The transport delivers one event at a time, so a handler runs whole.    *)
(***************************************************************************)
MaxApps == 2

\* the app ids an event carries; 0 is the app id that is false in line 196's test
AppIds == 0..MaxApps

Bundles == {"bundleA", "bundleB"}

\* the translations an event carries; <<>> stands for None and for the empty list,
\* which line 196 does not tell apart
TranslationLists ==
    {<<>>} \cup {<<b>> : b \in Bundles} \cup {<<b, c>> : b \in Bundles, c \in Bundles}

MaxLicenses == 2

PackageIds == {7, 9}

License(package_id) == [package_id |-> package_id]

LicenseBatches ==
    UNION {[1..n -> {License(p) : p \in PackageIds}] : n \in 0..MaxLicenses}

get_presence_localization(appid) == Request("get_presence_localization", None, <<appid>>, 0)

get_packages_info(package_ids) == Request("get_packages_info", None, package_ids, 0)

\* GamesCache.start_packages_import (cache/games_cache.py) is told the package ids
start_packages_import(package_ids) == CacheOp("start_packages_import", package_ids)

\* line 183: a license's package_id is an integer field of the message (uint32),
\* and int() of an integer is that integer
int(package_id) == package_id

impInit ==
    /\ translations_cache = [a \in AppIds |-> Absent]
    /\ tr_event = [appid |-> 0, translations |-> <<>>]
    /\ tr_sent = <<>>
    /\ lic_event = <<>>
    /\ lic_trace = <<>>
    /\ last_handler = None

\* line 196
HasTranslations(appid, translations) == appid # 0 /\ translations # <<>>

\* lines 196-197
TranslationsStored(cache, appid, translations) ==
    IF HasTranslations(appid, translations)
    THEN [cache EXCEPT ![appid] = translations[1]]
    ELSE cache

\* lines 198-199
RequestWithoutCacheCheck(cache, appid, translations) ==
    IF HasTranslations(appid, translations) THEN <<>>
    ELSE <<get_presence_localization(appid)>>

TranslationsRequests(cache, appid, translations) ==
    IF HasTranslations(appid, translations) THEN <<>>
    ELSE IF cache[appid] = Absent THEN <<get_presence_localization(appid)>>
    ELSE <<>>

\* lines 195-199
TranslationsHandler(appid, translations) ==
    /\ tr_event' = [appid |-> appid, translations |-> translations]
    /\ translations_cache' = TranslationsStored(translations_cache, appid, translations)
    /\ tr_sent' = TranslationsRequests(translations_cache, appid, translations)
    /\ last_handler' = "translations"
    /\ UNCHANGED <<lic_event, lic_trace>>

\* lines 180-187
RequestPerLicense(licenses) ==
    LET package_ids == [k \in 1..Len(licenses) |-> int(licenses[k].package_id)] IN
    <<start_packages_import(package_ids)>>
        \o [k \in 1..Len(licenses) |-> get_packages_info(<<package_ids[k]>>)]

LicenseImport(licenses) ==
    LET package_ids == [k \in 1..Len(licenses) |-> int(licenses[k].package_id)] IN
    <<start_packages_import(package_ids), get_packages_info(package_ids)>>

\* lines 178-187
LicenseImportHandler(licenses) ==
    /\ lic_event' = licenses
    /\ lic_trace' = LicenseImport(licenses)
    /\ last_handler' = "licenses"
    /\ UNCHANGED <<translations_cache, tr_event, tr_sent>>

ImportNext ==
    \/ \E appid \in AppIds, translations \in TranslationLists :
          /\ TranslationsHandler(appid, translations)
          /\ UNCHANGED <<clsVars, relVars, sesVars, jobVars>>
    \/ \E licenses \in LicenseBatches :
          /\ LicenseImportHandler(licenses)
          /\ UNCHANGED <<clsVars, relVars, sesVars, jobVars>>

Next ==
    \/ \E t \in Tasks : AuthenticateStart(t) /\ UNCHANGED <<clsVars, relVars, jobVars, impVars>>
    \/ \E t \in Tasks : AuthenticateAwait(t) /\ UNCHANGED <<clsVars, relVars, jobVars, impVars>>
    \/ \E t \in Tasks : AuthenticateResume(t) /\ UNCHANGED <<clsVars, relVars, jobVars, impVars>>
    \/ \E result \in SessionCodes : LogOnHandler(result) /\ UNCHANGED <<clsVars, relVars, jobVars, impVars>>
    \/ \E result \in SessionCodes : LogOffHandler(result) /\ UNCHANGED <<clsVars, relVars, jobVars, impVars>>
    \/ Close /\ UNCHANGED <<clsVars, relVars, jobVars, impVars>>
    \/ \E t \in Tasks : RetrieveCollectionsStart(t) /\ UNCHANGED <<clsVars, relVars, jobVars, impVars>>
    \/ \E t \in Tasks : RetrieveCollectionsResume(t) /\ UNCHANGED <<clsVars, relVars, jobVars, impVars>>
    \/ \E payload \in Payloads : SignalCollections(payload) /\ UNCHANGED <<clsVars, relVars, jobVars, impVars>>

Init == clsIdle /\ relInit /\ sesInit /\ jobInit /\ impInit

Spec == Init /\ [][Next]_vars

ClassifyNext == Classify /\ UNCHANGED <<relVars, sesVars, jobVars, impVars>>

ClassifyStart == ClassifyInit /\ relInit /\ sesInit /\ jobInit /\ impInit

ClassifySpec == ClassifyStart /\ [][ClassifyNext]_vars

FriendsSpec == Init /\ [][FriendsNext]_vars

JobsSpec == Init /\ [][JobsNext]_vars

ImportSpec == Init /\ [][ImportNext]_vars

\* task steps the event loop runs once they are ready; the transport answers a
\* log_on while it is open
TaskStep(t) ==
    (AuthenticateAwait(t) \/ AuthenticateResume(t) \/ RetrieveCollectionsResume(t))
        /\ UNCHANGED <<clsVars, relVars, jobVars, impVars>>

LogOnDelivery ==
    (\E result \in SessionCodes : LogOnHandler(result)) /\ UNCHANGED <<clsVars, relVars, jobVars, impVars>>

FairSpec ==
    /\ Spec
    /\ \A t \in Tasks : WF_vars(TaskStep(t))
    /\ WF_vars(LogOnDelivery)

(***************************************************************************)
(* Properties                                                              *)
(***************************************************************************)
ErrorCategories ==
    {"InvalidCredentials", "NetworkError", "BackendNotAvailable", "BackendTimeout",
     "TemporaryBlocked", "Banned", "AccessDenied", "BackendError", "UnknownError"}

InAuthenticate(t) == call[t] = "authenticate" /\ pc[t] \in {"log_on", "await_login"}

\* C1: when an authenticate call goes on with a login result of Success, it
\* returns normally (raises nothing) and the installed lost-handler is then
\* exactly the handler passed to that call.
C1_SuccessInstallsHandler ==
    [][\A t \in Tasks :
          (/\ InAuthenticate(t)
           /\ pc'[t] \in {"returned", "raised"}
           /\ future'[awaited'[t]] = OK)
          => (/\ pc'[t] = "returned"
              /\ raised'[t] = NoError
              /\ auth_lost_handler' = t)]_vars

\* a lone authenticate call was resolved with Success and its handler is installed
C1_Witness ==
    /\ call[1] = "authenticate"
    /\ pc[1] = "returned"
    /\ future[1] = OK
    /\ auth_lost_handler = 1
    /\ \A t \in Tasks \ {1} : pc[t] = "idle"

\* C2: an authenticate call whose login result is a code other than Success
\* ends by raising an error of the category translate_error gives for that
\* code, one of the nine categories and no raw result code, and the handler
\* passed to that call is not installed, then or before.
C2_FailureRaisesCategory ==
    \A t \in Tasks :
        (/\ call[t] = "authenticate"
         /\ FutureDone(awaited[t])
         /\ future[awaited[t]] # OK)
        => (/\ auth_lost_handler # t
            /\ pc[t] \in {"await_login", "raised"}
            /\ pc[t] = "raised" =>
                  (/\ raised[t].category \in ErrorCategories
                   /\ raised[t].category = translate_error(future[awaited[t]]).category))

\* authenticate resolved with InvalidSteamID has failed with InvalidCredentials
C2_Witness ==
    /\ call[1] = "authenticate"
    /\ pc[1] = "raised"
    /\ future[awaited[1]] = "InvalidSteamID"
    /\ raised[1].category = "InvalidCredentials"
    /\ auth_lost_handler = 0

\* the table of the classifier as the specification gives it (section 4.1); its
\* AccountLogonDeniedNeedTwoFactor is the member the source spells
\* AccountLoginDeniedNeedTwoFactor
TableCategory(code) ==
    CASE code \in {"AccountNotFound", "InvalidSteamID", "InvalidLoginAuthCode",
                   "AccountLogonDeniedNoMailSent", "AccountLoginDeniedNeedTwoFactor"}
            -> "InvalidCredentials"
      [] code \in {"ConnectFailed", "IOFailure", "RemoteDisconnect"} -> "NetworkError"
      [] code \in {"Busy", "ServiceUnavailable", "Pending", "IPNotFound", "TryAnotherCM",
                   "Cancelled"} -> "BackendNotAvailable"
      [] code \in {"Timeout"} -> "BackendTimeout"
      [] code \in {"RateLimitExceeded", "LimitExceeded", "Suspended", "AccountLocked",
                   "AccountLogonDeniedVerifiedEmailRequired"} -> "TemporaryBlocked"
      [] code \in {"Banned"} -> "Banned"
      [] code \in {"AccessDenied", "InsufficientPrivilege", "LogonSessionReplaced",
                   "Blocked", "Ignored", "AccountDisabled", "AccountNotFeatured",
                   "AccountLogonDenied"} -> "AccessDenied"
      [] code \in {"DataCorruption", "DiskFull", "RemoteCallFailed", "RemoteFileConflict",
                   "BadResponse"} -> "BackendError"
      [] OTHER -> "UnknownError"

Classified == cls_result # NotCalled /\ cls_code # OK

\* C3: for every result code other than Success, translate_error returns the
\* category the table lists for it, and UnknownError for a code the table
\* does not list.
C3_TableCategories == Classified => cls_result.category = TableCategory(cls_code)

\* Timeout was classified as BackendTimeout
C3_Witness ==
    /\ Classified
    /\ cls_code = "Timeout"
    /\ cls_result.category = "BackendTimeout"

\* C4: for every result code other than Success, the error translate_error
\* returns carries that result code as its data.
C4_CarriesCode == Classified => cls_result.data = cls_code

\* C5: translate_error is never invoked with Success: no callback of the
\* session ends on its failed assertion.
C5_NeverClassifiesSuccess == translate_arg # OK /\ handler_error # "AssertionError"

WaitingForLogin(t) == pc[t] = "await_login" /\ ~FutureDone(awaited[t])

\* C6: at most one authenticate caller is suspended waiting for a login
\* result, and no login result is set on a future that already has one.
C6_SinglePendingAuthentication ==
    /\ Cardinality({t \in Tasks : WaitingForLogin(t)}) <= 1
    /\ handler_error # "InvalidStateError"

Suspended(t) == WaitingForLogin(t) \/ pc[t] = "await_event"

\* C7: a caller suspended in authenticate or retrieve_collections while the
\* transport is closed is eventually released with an error.
C7_ReleasedAfterClose ==
    \A t \in Tasks : (closed /\ Suspended(t)) ~> (pc[t] = "raised")

FriendIds(friends) == {u \in Users : friends[u] = Friend}

NoneIds(friends) == {u \in Users : friends[u] = None_}

FullSnapshotHandled == rel_event.handled /\ ~rel_event.incremental

IncrementalHandled == rel_event.handled /\ rel_event.incremental

SentCount(name) == Cardinality({k \in 1..Len(sent) : sent[k].op = name})

UserInfoIdLists == {sent[k].ids : k \in {j \in 1..Len(sent) : sent[j].op = "get_user_infos"}}

\* C8 as stated: after the handler is given a full snapshot, the cache's
\* members are exactly the snapshot's Friend identifiers.
C8_AnyFullSnapshotResets ==
    FullSnapshotHandled => friends_cache = FriendIds(rel_event.friends)

\* C8: after the handler is given a full snapshot that has no None-state
\* entry, whatever the cache held before, the handler has not raised and the
\* cache's members are exactly the snapshot's Friend identifiers.
C8_FullSnapshotResets ==
    (FullSnapshotHandled /\ NoneIds(rel_event.friends) = {})
        => (/\ rel_raised = None
            /\ friends_cache = FriendIds(rel_event.friends))

\* a full snapshot with Friend and other entries was handled
C8_Witness ==
    /\ FullSnapshotHandled
    /\ rel_event.friends = [u \in Users |-> IF u <= 2 THEN Friend ELSE "RequestRecipient"]
    /\ friends_cache = {1, 2}

MixedFullSnapshot ==
    /\ FullSnapshotHandled
    /\ NoneIds(rel_event.friends) # {}
    /\ FriendIds(rel_event.friends) # {}

\* C9 as stated: a full snapshot with a None-state entry besides Friend
\* entries does not raise; the cache then holds exactly the Friend
\* identifiers, and one status-visibility change, one friend-statuses request
\* and one user-info request for those identifiers were issued.
C9_MixedSnapshotDoesNotRaise ==
    MixedFullSnapshot
        => (/\ rel_raised = None
            /\ friends_cache = FriendIds(rel_event.friends)
            /\ Len(sent) = 3
            /\ SentCount("set_persona_state") = 1
            /\ SentCount("get_friends_statuses") = 1
            /\ UserInfoIdLists = {SeqOfSet(FriendIds(rel_event.friends))})

\* C9: a full snapshot with a None-state entry besides Friend entries makes
\* the handler raise on its assertion; the cache is left as it was and no
\* request is issued.
C9_MixedSnapshotRaises ==
    [][MixedFullSnapshot'
          => (/\ rel_raised' = "AssertionError"
              /\ friends_cache' = friends_cache
              /\ sent' = <<>>)]_vars

\* the snapshot {1: Friend, 2: Friend, 3: None} was handled
C9_Witness ==
    /\ FullSnapshotHandled
    /\ rel_event.friends = [u \in Users |-> IF u <= 2 THEN Friend ELSE None_]
    /\ rel_raised = "AssertionError"
    /\ sent = <<>>

\* C10: after an incremental batch the handler has issued, when the batch has
\* a Friend-state identifier, exactly one friend-statuses request and one
\* user-info request, for exactly the batch's Friend-state identifiers, and no
\* persona-state change; when it has none, no request at all.
C10_IncrementalRequests ==
    IncrementalHandled
        => (/\ rel_raised = None
            /\ IF FriendIds(rel_event.friends) # {}
               THEN /\ Len(sent) = 2
                    /\ SentCount("get_friends_statuses") = 1
                    /\ UserInfoIdLists = {SeqOfSet(FriendIds(rel_event.friends))}
                    /\ SentCount("set_persona_state") = 0
               ELSE sent = <<>>)

\* the batch {3: Friend} was handled on top of a cache holding 1 and 2
C10_Witness ==
    /\ IncrementalHandled
    /\ rel_event.friends = [u \in Users |-> IF u = 3 THEN Friend ELSE Absent]
    /\ friends_cache = {1, 2, 3}
    /\ sent = <<get_friends_statuses, get_user_infos(<<3>>, _STATUS_FLAG)>>

\* C16: an incremental batch leaves the cache holding its earlier members plus
\* the batch's Friend-state identifiers minus its None-state identifiers;
\* identifiers in any other state change nothing.
C16_IncrementalMembership ==
    [][IncrementalHandled'
          => (/\ rel_raised' = None
              /\ friends_cache' =
                    (friends_cache \cup FriendIds(rel_event'.friends))
                        \ NoneIds(rel_event'.friends))]_vars

\* the batch {1: None, 2: RequestRecipient, 3: Friend} was handled on a cache
\* that held 1 and 2
C16_Witness ==
    /\ IncrementalHandled
    /\ rel_event.friends =
          [u \in Users |-> IF u = 1 THEN None_ ELSE IF u = 2 THEN "RequestRecipient"
                           ELSE IF u = 3 THEN Friend ELSE Absent]
    /\ friends_cache = {2, 3}
    /\ rel_trace = <<CacheOp("remove", <<1>>), CacheOp("add", <<3>>),
                     get_friends_statuses, get_user_infos(<<3>>, _STATUS_FLAG)>>

\* C17: for a full snapshot without None-state entries the handler does, in
\* this order and once each: reset the cache to the snapshot's Friend
\* identifiers, set the persona state to Invisible, request the friend
\* statuses, request the user infos of those identifiers with flag 1106; and
\* nothing after that.
C17_FullSnapshotOrder ==
    (FullSnapshotHandled /\ NoneIds(rel_event.friends) = {})
        => rel_trace =
              <<CacheOp("reset", SeqOfSet(FriendIds(rel_event.friends))),
                set_persona_state("Invisible"),
                get_friends_statuses,
                get_user_infos(SeqOfSet(FriendIds(rel_event.friends)), 1106)>>

\* the full snapshot {1: Friend, 3: Friend} was handled
C17_Witness ==
    /\ FullSnapshotHandled
    /\ rel_event.friends = [u \in Users |-> IF u \in {1, 3} THEN Friend ELSE Absent]
    /\ Len(rel_trace) = 4
    /\ rel_trace[4] = get_user_infos(<<1, 3>>, 1106)
    /\ friends_cache = {1, 3}

\* C18: a full snapshot with a None-state entry makes the handler call fail;
\* the cache is left as it was (no reset, no add, no remove) and neither a
\* persona-state change nor a friend-statuses or user-info request is issued.
C18_NoneInFullSnapshotFatal ==
    [][(FullSnapshotHandled' /\ NoneIds(rel_event'.friends) # {})
          => (/\ rel_raised' # None
              /\ friends_cache' = friends_cache
              /\ rel_trace' = <<>>
              /\ SentCount("set_persona_state")' = 0
              /\ SentCount("get_friends_statuses")' = 0
              /\ SentCount("get_user_infos")' = 0)]_vars

\* the full snapshot {1: None} failed on a cache that held 1 and 2
C18_Witness ==
    /\ FullSnapshotHandled
    /\ rel_event.friends = [u \in Users |-> IF u = 1 THEN None_ ELSE Absent]
    /\ rel_raised = "AssertionError"
    /\ friends_cache = {1, 2}

\* a step of the log-off callback: of the session's state it touches only
\* translate_arg, handler_error and lost_calls
LogOffStep ==
    /\ pc' = pc
    /\ logons' = logons
    /\ future' = future
    /\ closed' = closed
    /\ collections' = collections
    /\ job_list' = job_list
    /\ auth_lost_handler' = auth_lost_handler

\* C15: a log-off callback that arrives while a lost-handler is installed
\* invokes that handler exactly once, with the classified error of the
\* log-off's result code; with no lost-handler installed it invokes nothing;
\* in both cases the callback raises nothing.
C15_LogOffInvokesHandler ==
    [][LogOffStep
          => IF auth_lost_handler # 0
             THEN /\ handler_error' = None
                  /\ Len(lost_calls') = 1
                  /\ lost_calls'[1].handler = auth_lost_handler
                  /\ lost_calls'[1].error.category \in ErrorCategories
             ELSE /\ handler_error' = None
                  /\ lost_calls' = <<>>]_vars

SucceededAuthenticate(t) ==
    /\ call[t] = "authenticate"
    /\ pc[t] = "returned"
    /\ future[awaited[t]] = OK

\* C20: a lost-handler is installed only once an authenticate call was
\* resolved with Success; the installed handler changes only in the step in
\* which an authenticate call returns on Success, and becomes the handler
\* passed to that call, so it is the one of the most recent successful
\* authenticate; a failed authenticate and a log-off callback leave it as it is.
C20_HandlerOfLastSuccess ==
    /\ [](auth_lost_handler # 0 => SucceededAuthenticate(auth_lost_handler))
    /\ [][/\ \A t \in Tasks :
                (~SucceededAuthenticate(t) /\ SucceededAuthenticate(t)')
                    => auth_lost_handler' = t
          /\ auth_lost_handler' # auth_lost_handler
                => \E t \in Tasks :
                      ~SucceededAuthenticate(t) /\ SucceededAuthenticate(t)']_vars

\* task 1 authenticated with Success, then task 2's authenticate failed and a
\* log-off invoked the handler of task 1, which is still installed
C20_Witness ==
    /\ SucceededAuthenticate(1)
    /\ call[2] = "authenticate"
    /\ pc[2] = "raised"
    /\ lost_calls # <<>>
    /\ auth_lost_handler = 1

\* the step in which task t's retrieve_collections returns
CollectionsReturn(t) ==
    call'[t] = "retrieve_collections" /\ pc[t] # "returned" /\ pc'[t] = "returned"

\* C11: when retrieve_collections returns, it returns the payload the slot held and
\* leaves the slot empty (event clear, payload the empty mapping); a call made
\* while the event is clear suspends and returns nothing.
C11_SlotClearedAfterReturn ==
    [][\A t \in Tasks :
          /\ CollectionsReturn(t) =>
                /\ returned'[t] = collections.collections
                /\ collections' = [event |-> FALSE, collections |-> {}]
          /\ (pc[t] = "idle" /\ call'[t] = "retrieve_collections" /\ ~collections.event) =>
                /\ pc'[t] = "await_event"
                /\ returned'[t] = returned[t]]_vars

C11_Witness ==
    /\ call[1] = "retrieve_collections" /\ pc[1] = "returned" /\ returned[1] = {<<"x", 1>>}
    /\ call[2] = "retrieve_collections" /\ pc[2] = "await_event"
    /\ collections = [event |-> FALSE, collections |-> {}]

\* the entries a step puts behind those the queue held
Added == SubSeq(job_list', Len(job_list) + 1, Len(job_list'))

TransportRequestsUnchanged ==
    logons' = logons /\ sent' = sent /\ tr_sent' = tr_sent /\ lic_trace' = lic_trace

\* C14: no step removes or reorders queue entries; import_game_stats appends one
\* import_game_stats entry per game id in the given order, import_game_times one
\* import_game_times entry, retrieve_collections one import_collections entry, and
\* none of the three issues a transport request.
C14_JobQueueAppendOnly ==
    [][/\ Len(job_list') >= Len(job_list)
       /\ SubSeq(job_list', 1, Len(job_list)) = job_list
       /\ (import_call' # import_call \/ job_list' # job_list) => TransportRequestsUnchanged
       /\ (pc' = pc /\ collections' = collections /\ import_call'.name = "import_game_stats") =>
             /\ Len(Added) = Len(import_call'.game_ids)
             /\ \A k \in 1..Len(Added) :
                   /\ Added[k].job_name = "import_game_stats"
                   /\ Added[k].game_id = import_call'.game_ids[k]
       /\ (pc' = pc /\ collections' = collections /\ import_call'.name = "import_game_times") =>
             Added = <<[job_name |-> "import_game_times"]>>
       /\ \A t \in Tasks :
             (pc[t] = "idle" /\ call'[t] = "retrieve_collections") =>
                Added = <<[job_name |-> "import_collections"]>>]_vars

C14_Witness ==
    /\ Len(job_list) = 2
    /\ job_list[1] = StatsJob(20)
    /\ job_list[2] = StatsJob(10)
    /\ import_call = ImportCall("import_game_stats", <<20, 10>>)

\* C19: every retrieve_collections call that has returned returned a signaled
\* payload, never the empty mapping another caller left in the slot.
C19_NoEmptyPayloadReturned ==
    \A t \in Tasks :
        (call[t] = "retrieve_collections" /\ pc[t] = "returned") => returned[t] # {}

\* C12: a translations event with an app id and a non-empty payload stores the
\* payload's first entry under the app id and issues no request; any other event
\* leaves the cache as it was and issues one localization request for its app id
\* when the app id is no key of the cache, none when it is.
C12_TranslationsFill ==
    [][last_handler' = "translations" =>
          LET appid == tr_event'.appid
              translations == tr_event'.translations IN
          IF appid # 0 /\ Len(translations) > 0
          THEN /\ translations_cache'[appid] = translations[1]
               /\ \A a \in AppIds \ {appid} : translations_cache'[a] = translations_cache[a]
               /\ tr_sent' = <<>>
          ELSE /\ translations_cache' = translations_cache
               /\ tr_sent' = IF translations_cache[appid] = Absent
                             THEN <<get_presence_localization(appid)>>
                             ELSE <<>>]_vars

C12_Witness ==
    /\ last_handler = "translations"
    /\ tr_event = [appid |-> 2, translations |-> <<>>]
    /\ translations_cache[2] = "bundleA"
    /\ translations_cache[1] = Absent
    /\ tr_sent = <<>>

\* C13: for every license batch the handler first tells the games cache that an
\* import starts for the batch's package ids and then issues one package-info
\* request with the same list, whatever the number of licenses.
C13_OnePackageInfoRequest ==
    last_handler = "licenses" =>
        /\ Len(lic_trace) = 2
        /\ lic_trace[1].op = "start_packages_import"
        /\ lic_trace[2].op = "get_packages_info"
        /\ Len(lic_trace[1].ids) = Len(lic_event)
        /\ \A k \in 1..Len(lic_event) : lic_trace[1].ids[k] = lic_event[k].package_id
        /\ lic_trace[2].ids = lic_trace[1].ids

C13_Witness ==
    /\ last_handler = "licenses"
    /\ lic_event = <<License(7), License(9)>>
    /\ lic_trace = <<start_packages_import(<<7, 9>>), get_packages_info(<<7, 9>>)>>

====
